---- MODULE Spec2Model ----
(***************************************************************************)
(* Business Plan Review App: the Express server of src/public/app.js       *)
(* (lines 543-1407): the session store and auth gate, the two rate         *)
(* limiters, the JSON-file database and the discussion / notification      *)
(* handlers.                                                                *)
(*                                                                         *)
(* Encoding of JavaScript values.  TLC compares only values of one type,   *)
(* so every slot of the model holds values of one TLA+ type:               *)
(*   - a slot that holds a JS string, boolean, null or undefined holds a   *)
(*     TLA+ string; the non-string values are the sentinels below;         *)
(*   - a slot that holds a JS number or null holds an integer; null, NaN   *)
(*     and a missing property are the negative sentinels below;            *)
(*   - a timestamp (new Date().toISOString(), Date.now()) is the integer   *)
(*     value of the clock `now`, counted in days;                          *)
(*   - a string that the code parses (a route parameter, section_id) is a  *)
(*     sequence of one-character strings;                                  *)
(*   - a template string is the tuple of its parts.                        *)
(***************************************************************************)
EXTENDS Integers, Sequences, FiniteSets, TLC

VARIABLES
    sections,       \* db.sections
    discussions,    \* db.discussions, each with its replies
    notifications,  \* db.notifications
    nextId,         \* db.nextId: {discussion, reply, notification}
    disk,           \* DB_FILE (data.json): [exists, parses, data]; parses: its text is valid JSON
    sessions,       \* const sessions = new Map(): the set of its entries [token, expiresAt]
    securityLog,    \* const securityLog = []
    loginHits,      \* loginLimiter's store: hits per source in the current window
    apiHits,        \* apiLimiter's store: hits per source in the current window
    APP_PASSWORD,   \* const APP_PASSWORD, fixed when the module loads
    now,            \* the clock, Date.now()
    res,            \* the response to the last request
    assigned,       \* history: every discussion id a create-discussion has assigned
    issued,         \* history: every session createSession has made, [token, createdAt]
    revoked,        \* history: every token whose session a logout has deleted
    state,          \* the browser's `state`: its currentUser and notifications
    requests,       \* every request the browser has sent for notifications, with its stage
    shownFor        \* history: the user whose fetch filled state.notifications

vars ==
    <<sections, discussions, notifications, nextId, disk, sessions, securityLog,
      loginHits, apiHits, APP_PASSWORD, now, res, assigned, issued, revoked,
      state, requests, shownFor>>
\* What a discussion, notification or section handler may write, besides res.
storeVars == <<sections, discussions, notifications, nextId, disk>>
\* What the auth routes and the auth gate may write, besides res.
authVars == <<sessions, securityLog, issued, revoked>>
limitVars == <<loginHits, apiHits>>
\* The browser.
clientVars == <<state, requests, shownFor>>
\* What surrounds the server: its environment variable, the clock and the browser.
envVars == <<APP_PASSWORD, now, clientVars>>

----------------------------------------------------------------------------
(* Bounds of the model *)

MaxNotifications == 2   \* a request that notifies is taken while nextId.notification <= this
MaxTime == 15           \* the clock stops advancing here
MaxLogins == 3          \* a login is taken while the security log is shorter than this
MaxAttempts == 6         \* SpecLimit: a login request is taken while the security log is shorter than this
MaxGateLogins == 1       \* SpecGate: likewise
MaxSessions == 2        \* a login succeeds while fewer sessions than this were ever created
MaxDiscussions == 2     \* SpecThread: a discussion is created while fewer than this were ever created
MaxReplies == 2         \* SpecThread: a reply is added while fewer than this were ever added
MaxRequests == 3        \* SpecClient: the browser sends a request while it has sent fewer than this

----------------------------------------------------------------------------
(* JavaScript values *)

Null == "<null>"
Undefined == "<undefined>"
JsTrue == "<true>"
JsFalse == "<false>"
JsZero == "<0>"
NullNum == -1
NaN == -2
UndefNum == -3
\* A property the object does not have; reading it yields undefined.
Missing == "<missing>"

\* ToBoolean of a value held in a string slot: false, null, undefined, 0 and ""
\* are falsy, every other value is truthy.
Truthy(v) == v \notin {JsFalse, Null, Undefined, Missing, JsZero, ""}

\* a || b on values of a string slot.
Or(a, b) == IF Truthy(a) THEN a ELSE b

Digits == <<"0", "1", "2", "3", "4", "5", "6", "7", "8", "9">>
IsDigit(c) == \E i \in 1..Len(Digits) : Digits[i] = c
DigitVal(c) == (CHOOSE i \in 1..Len(Digits) : Digits[i] = c) - 1

RECURSIVE ParseDigits(_, _)
ParseDigits(s, acc) ==
    IF s = <<>> \/ ~IsDigit(Head(s)) THEN acc
    ELSE ParseDigits(Tail(s), 10 * acc + DigitVal(Head(s)))

\* parseInt(s): the number its leading decimal digits spell, NaN when it has none.
ParseInt(s) ==
    IF s = <<>> \/ ~IsDigit(Head(s)) THEN NaN ELSE ParseDigits(s, 0)

\* a === b on numbers: NaN equals nothing, itself included.
StrictEq(a, b) == a # NaN /\ b # NaN /\ a = b

\* A plausible slip: `=` for `===` in the predicate, which every element passes.
FindDiscussionAny(list, id) == IF Len(list) > 0 THEN 1 ELSE 0

\* db.discussions.find(d => d.id === id): the index of the first discussion with
\* that id, 0 when there is none.
FindDiscussion(list, id) ==
    IF \E i \in 1..Len(list) : StrictEq(list[i].id, id)
    THEN CHOOSE i \in 1..Len(list) :
            /\ StrictEq(list[i].id, id)
            /\ \A j \in 1..(i - 1) : ~StrictEq(list[j].id, id)
    ELSE 0

----------------------------------------------------------------------------
(* The JSON file database *)

SectionTitles ==
    << "Executive Summary", "Business Model Overview", "Market Focus",
       "Ownership Structure", "Five-Year Success Metrics", "Investment Summary",
       "Company Structure", "Decision-Making Framework", "Development Approach",
       "Exit Strategy" >>

getBusinessPlanSections ==
    [i \in 1..Len(SectionTitles) |->
        [id |-> i, title |-> SectionTitles[i], level |-> 1, content |-> "seed",
         updated_at |-> UndefNum]]

SeedDB ==
    [sections |-> getBusinessPlanSections,
     discussions |-> <<>>,
     notifications |-> <<>>,
     nextId |-> [discussion |-> 1, reply |-> 1, notification |-> 1]]

\* JSON.stringify of a number slot: NaN is written as null.
JsonNum(n) == IF n = NaN THEN NullNum ELSE n

\* JSON.stringify of a string slot: a property whose value is undefined is left out.
JsonStr(v) == IF v = Undefined THEN Missing ELSE v

\* JSON.parse(JSON.stringify(data)): what a reload of the written file yields.  A
\* property whose value is undefined is left out of the file and is missing after
\* the reload; NaN is written as null.
JsonRoundTrip(data) ==
    [data EXCEPT
        !.sections =
            [i \in 1..Len(data.sections) |->
                [data.sections[i] EXCEPT !.title = JsonStr(@), !.content = JsonStr(@)]],
        !.discussions =
            [i \in 1..Len(data.discussions) |->
                [data.discussions[i] EXCEPT
                    !.section_id = JsonNum(@),
                    !.type = JsonStr(@), !.text = JsonStr(@), !.author = JsonStr(@),
                    !.resolved = JsonStr(@), !.resolved_by = JsonStr(@),
                    !.replies = [k \in 1..Len(@) |->
                                    [@[k] EXCEPT !.text = JsonStr(@), !.author = JsonStr(@)]]]],
        !.notifications =
            [i \in 1..Len(data.notifications) |->
                [data.notifications[i] EXCEPT !.type = JsonStr(@)]]]

\* A plausible slip: the flush left out.
saveDBSkipped(data, wok) == disk' = disk

\* saveDB(data): fs.writeFileSync either writes the whole document or throws.
saveDB(data, wok) ==
    disk' = IF wok THEN [exists |-> TRUE, parses |-> TRUE, data |-> JsonRoundTrip(data)] ELSE disk

\* A plausible slip: the write's exception caught and the request answered as done.
ServerErrorSwallowed(route) == [route |-> route, status |-> 200, id |-> NullNum, token |-> ""]

\* The answer of a handler whose saveDB threw: Express's error handler answers 500.
ServerError(route) == [route |-> route, status |-> 500, id |-> NullNum, token |-> ""]

Reply(route, status, id) == [route |-> route, status |-> status, id |-> id, token |-> ""]

\* let db = loadDB(): the in-memory document.
db ==
    [sections |-> sections, discussions |-> discussions,
     notifications |-> notifications, nextId |-> nextId]

\* An assignment to db's properties.
SetDB(data) ==
    /\ sections' = data.sections
    /\ discussions' = data.discussions
    /\ notifications' = data.notifications
    /\ nextId' = data.nextId

----------------------------------------------------------------------------
(* Discussion handlers.  Each takes the request's parameters and `wok`,       *)
(* whether the handler's fs.writeFileSync succeeds.                           *)

\* const otherUser = author === 'Francisco' ? 'Wife' : 'Francisco'
OtherUserOf(author) == IF author = "Francisco" THEN "Wife" ELSE "Francisco"

\* A plausible slip: the id taken from the list's length instead of the counter.
NextDiscussionIdFromLength == Len(discussions) + 1

\* id: db.nextId.discussion++ : the id the next discussion gets.
NextDiscussionId == nextId.discussion

\* app.post('/api/discussions')
CreateDiscussion(section_id, type, text, author, wok) ==
    LET id == NextDiscussionId
        nid == db.nextId.notification
        discussion ==
            [id |-> id,
             section_id |-> IF section_id # <<>> THEN ParseInt(section_id) ELSE NullNum,
             type |-> type, text |-> text, author |-> author,
             resolved |-> JsFalse, resolved_by |-> Null, resolved_at |-> NullNum,
             created_at |-> now, replies |-> <<>>]
        notification ==
            [id |-> nid, user |-> OtherUserOf(author), type |-> type,
             message |-> <<author, " added a ", type>>,
             discussion_id |-> id, read |-> FALSE, created_at |-> now]
        db2 == [db EXCEPT !.nextId.discussion = id + 1,
                          !.nextId.notification = nid + 1,
                          !.discussions = Append(@, discussion),
                          !.notifications = Append(@, notification)]
    IN  /\ SetDB(db2)
        /\ saveDB(db2, wok)
        /\ res' = IF wok THEN Reply("POST /api/discussions", 200, id)
                  ELSE ServerError("POST /api/discussions")
        /\ assigned' = assigned \cup {id}

\* A plausible slip: the filter on the replier left out.
ReplyRecipientsUnfiltered(author) == <<"Francisco", "Wife">>

\* ['Francisco', 'Wife'].filter(u => u !== author)
ReplyRecipients(author) == SelectSeq(<<"Francisco", "Wife">>, LAMBDA u : u # author)

\* A plausible slip: the reply put at the front (unshift) instead of pushed.
AddReplyUnshifting(rawId, text, author, wok) ==
    LET i == FindDiscussion(db.discussions, ParseInt(rawId))
        rid == db.nextId.reply
        nid == db.nextId.notification
        reply == [id |-> rid, text |-> text, author |-> author, created_at |-> now]
        to == ReplyRecipients(author)
        added ==
            [k \in 1..Len(to) |->
                [id |-> nid + k - 1, user |-> to[k], type |-> "reply",
                 message |-> <<author, " replied to a discussion", "">>,
                 discussion_id |-> db.discussions[i].id, read |-> FALSE,
                 created_at |-> now]]
        db2 == [db EXCEPT !.nextId.reply = rid + 1,
                          !.nextId.notification = nid + Len(to),
                          !.discussions[i].replies = <<reply>> \o @,
                          !.notifications = @ \o added]
    IN  /\ IF i # 0
           THEN /\ SetDB(db2)
                /\ saveDB(db2, wok)
                /\ res' = IF wok THEN Reply("POST /api/discussions/:id/replies", 200, rid)
                          ELSE ServerError("POST /api/discussions/:id/replies")
           ELSE /\ UNCHANGED storeVars
                /\ res' = Reply("POST /api/discussions/:id/replies", 404, NullNum)
        /\ UNCHANGED assigned

\* app.post('/api/discussions/:id/replies')
AddReply(rawId, text, author, wok) ==
    LET i == FindDiscussion(db.discussions, ParseInt(rawId))
        rid == db.nextId.reply
        nid == db.nextId.notification
        reply == [id |-> rid, text |-> text, author |-> author, created_at |-> now]
        to == ReplyRecipients(author)
        added ==
            [k \in 1..Len(to) |->
                [id |-> nid + k - 1, user |-> to[k], type |-> "reply",
                 message |-> <<author, " replied to a discussion", "">>,
                 discussion_id |-> db.discussions[i].id, read |-> FALSE,
                 created_at |-> now]]
        db2 == [db EXCEPT !.nextId.reply = rid + 1,
                          !.nextId.notification = nid + Len(to),
                          !.discussions[i].replies = Append(@, reply),
                          !.notifications = @ \o added]
    IN  /\ IF i # 0
           THEN /\ SetDB(db2)
                /\ saveDB(db2, wok)
                /\ res' = IF wok THEN Reply("POST /api/discussions/:id/replies", 200, rid)
                          ELSE ServerError("POST /api/discussions/:id/replies")
           ELSE /\ UNCHANGED storeVars
                /\ res' = Reply("POST /api/discussions/:id/replies", 404, NullNum)
        /\ UNCHANGED assigned

\* A plausible slip: the attribution kept when the discussion is reopened.
ResolvedByKept(resolved, resolved_by) == resolved_by

\* discussion.resolved_by = resolved ? resolved_by : null
ResolvedByOf(resolved, resolved_by) == IF Truthy(resolved) THEN resolved_by ELSE Null

\* A plausible slip: the resolve handler notifying like create and reply do.
SetResolvedNotifying(rawId, resolved, resolved_by, wok) ==
    LET i == FindDiscussion(db.discussions, ParseInt(rawId))
        nid == db.nextId.notification
        notification ==
            [id |-> nid, user |-> OtherUserOf(resolved_by), type |-> "resolved",
             message |-> <<resolved_by, " resolved a discussion", "">>,
             discussion_id |-> db.discussions[i].id, read |-> FALSE, created_at |-> now]
        db2 == [db EXCEPT
                  !.discussions[i].resolved = resolved,
                  !.discussions[i].resolved_by = ResolvedByOf(resolved, resolved_by),
                  !.discussions[i].resolved_at = IF Truthy(resolved) THEN now ELSE NullNum,
                  !.nextId.notification = nid + 1,
                  !.notifications = Append(@, notification)]
    IN  /\ IF i # 0
           THEN /\ SetDB(db2)
                /\ saveDB(db2, wok)
                /\ res' = IF wok THEN Reply("PATCH /api/discussions/:id/resolve", 200, NullNum)
                          ELSE ServerError("PATCH /api/discussions/:id/resolve")
           ELSE /\ UNCHANGED storeVars
                /\ res' = Reply("PATCH /api/discussions/:id/resolve", 200, NullNum)
        /\ UNCHANGED assigned

\* app.patch('/api/discussions/:id/resolve')
SetResolved(rawId, resolved, resolved_by, wok) ==
    LET i == FindDiscussion(db.discussions, ParseInt(rawId))
        db2 == [db EXCEPT
                  !.discussions[i].resolved = resolved,
                  !.discussions[i].resolved_by = ResolvedByOf(resolved, resolved_by),
                  !.discussions[i].resolved_at =
                      IF Truthy(resolved) THEN now ELSE NullNum]
    IN  /\ IF i # 0
           THEN /\ SetDB(db2)
                /\ saveDB(db2, wok)
                /\ res' = IF wok THEN Reply("PATCH /api/discussions/:id/resolve", 200, NullNum)
                          ELSE ServerError("PATCH /api/discussions/:id/resolve")
           ELSE /\ UNCHANGED storeVars
                /\ res' = Reply("PATCH /api/discussions/:id/resolve", 200, NullNum)
        /\ UNCHANGED assigned

\* A plausible slip: the delete cascading to the discussion's notifications.
DeleteDiscussionCascading(rawId, wok) ==
    LET id == ParseInt(rawId)
        db2 == [db EXCEPT !.discussions = SelectSeq(@, LAMBDA d : ~StrictEq(d.id, id)),
                          !.notifications = SelectSeq(@, LAMBDA n : ~StrictEq(n.discussion_id, id))]
    IN  /\ SetDB(db2)
        /\ saveDB(db2, wok)
        /\ res' = IF wok THEN Reply("DELETE /api/discussions/:id", 200, NullNum)
                  ELSE ServerError("DELETE /api/discussions/:id")
        /\ UNCHANGED assigned

\* app.delete('/api/discussions/:id')
DeleteDiscussion(rawId, wok) ==
    LET id == ParseInt(rawId)
        db2 == [db EXCEPT !.discussions =
                    SelectSeq(@, LAMBDA d : ~StrictEq(d.id, id))]
    IN  /\ SetDB(db2)
        /\ saveDB(db2, wok)
        /\ res' = IF wok THEN Reply("DELETE /api/discussions/:id", 200, NullNum)
                  ELSE ServerError("DELETE /api/discussions/:id")
        /\ UNCHANGED assigned

\* app.get('/api/discussions'): each discussion with its section's title joined in.
ListDiscussions ==
    [i \in 1..Len(db.discussions) |->
        LET d == db.discussions[i]
            hit == {s \in 1..Len(db.sections) : StrictEq(db.sections[s].id, d.section_id)}
        IN  [id |-> d.id, section_id |-> d.section_id, type |-> d.type,
             text |-> d.text, author |-> d.author, resolved |-> d.resolved,
             resolved_by |-> d.resolved_by, resolved_at |-> d.resolved_at,
             created_at |-> d.created_at, replies |-> d.replies,
             section_title |-> IF hit = {} THEN Null
                               ELSE db.sections[CHOOSE s \in hit : \A t \in hit : s <= t].title]]

\* db.sections.find(s => s.id === id): the index of the section, 0 when none.
FindSection(list, id) ==
    IF \E i \in 1..Len(list) : StrictEq(list[i].id, id)
    THEN CHOOSE i \in 1..Len(list) :
            /\ StrictEq(list[i].id, id)
            /\ \A j \in 1..(i - 1) : ~StrictEq(list[j].id, id)
    ELSE 0

\* app.put('/api/sections/:id')
UpdateSection(rawId, title, content, wok) ==
    LET i == FindSection(db.sections, ParseInt(rawId))
        db2 == [db EXCEPT !.sections[i].title = title,
                          !.sections[i].content = content,
                          !.sections[i].updated_at = now]
    IN  /\ IF i # 0
           THEN /\ SetDB(db2)
                /\ saveDB(db2, wok)
                /\ res' = IF wok THEN Reply("PUT /api/sections/:id", 200, NullNum)
                          ELSE ServerError("PUT /api/sections/:id")
           ELSE /\ UNCHANGED storeVars
                /\ res' = Reply("PUT /api/sections/:id", 200, NullNum)
        /\ UNCHANGED assigned

----------------------------------------------------------------------------
(* Notification handlers and stats *)

\* A plausible slip: the predicate ignoring the id, so that the first one is found.
FindNotificationFirst(list, id) == IF Len(list) > 0 THEN 1 ELSE 0

\* db.notifications.find(n => n.id === id): the index of the notification, 0 when none.
FindNotification(list, id) ==
    IF \E i \in 1..Len(list) : StrictEq(list[i].id, id)
    THEN CHOOSE i \in 1..Len(list) :
            /\ StrictEq(list[i].id, id)
            /\ \A j \in 1..(i - 1) : ~StrictEq(list[j].id, id)
    ELSE 0

\* .slice(0, 50)
NotificationLimit == 50

\* .sort((a, b) => new Date(b.created_at) - new Date(a.created_at)): the position
\* the sort gives element i of `list`: after every later-dated element and, the sort
\* being stable, after the equally dated elements that precede it in `list`.
SortedPosition(list, i) ==
    1 + Cardinality({j \in 1..Len(list) : list[j].created_at > list[i].created_at})
      + Cardinality({j \in 1..(i - 1) : list[j].created_at = list[i].created_at})

\* A plausible slip: the comparator's operands swapped, oldest first.
SortByCreatedAtAscending(list) ==
    LET pos == [i \in 1..Len(list) |->
                    1 + Cardinality({j \in 1..Len(list) : list[j].created_at < list[i].created_at})
                      + Cardinality({j \in 1..(i - 1) : list[j].created_at = list[i].created_at})]
    IN  [p \in 1..Len(list) |-> list[CHOOSE i \in 1..Len(list) : pos[i] = p]]

SortByCreatedAtDescending(list) ==
    LET pos == [i \in 1..Len(list) |-> SortedPosition(list, i)]
    IN  [p \in 1..Len(list) |-> list[CHOOSE i \in 1..Len(list) : pos[i] = p]]

\* app.get('/api/notifications/:user'): the list it answers.  filter() makes a new
\* array, which sort() orders in place; db.notifications is not written.
GetNotifications(user) ==
    LET mine == SelectSeq(db.notifications, LAMBDA n : n.user = user)
        sorted == SortByCreatedAtDescending(mine)
    IN  SubSeq(sorted, 1, IF Len(sorted) < NotificationLimit THEN Len(sorted) ELSE NotificationLimit)

\* app.get('/api/notifications/:user') as a request.
ListNotifications(user) ==
    /\ res' = Reply("GET /api/notifications/:user", 200, NullNum)
    /\ UNCHANGED <<storeVars, assigned>>

\* A plausible slip: the flag toggled (n.read = !n.read) instead of set.
MarkReadToggling(rawId, wok) ==
    LET i == FindNotification(db.notifications, ParseInt(rawId))
        db2 == [db EXCEPT !.notifications[i].read = ~@]
    IN  /\ IF i # 0
           THEN /\ SetDB(db2)
                /\ saveDB(db2, wok)
                /\ res' = IF wok THEN Reply("PATCH /api/notifications/:id/read", 200, NullNum)
                          ELSE ServerError("PATCH /api/notifications/:id/read")
           ELSE /\ UNCHANGED storeVars
                /\ res' = Reply("PATCH /api/notifications/:id/read", 200, NullNum)
        /\ UNCHANGED assigned

\* app.patch('/api/notifications/:id/read')
MarkRead(rawId, wok) ==
    LET i == FindNotification(db.notifications, ParseInt(rawId))
        db2 == [db EXCEPT !.notifications[i].read = TRUE]
    IN  /\ IF i # 0
           THEN /\ SetDB(db2)
                /\ saveDB(db2, wok)
                /\ res' = IF wok THEN Reply("PATCH /api/notifications/:id/read", 200, NullNum)
                          ELSE ServerError("PATCH /api/notifications/:id/read")
           ELSE /\ UNCHANGED storeVars
                /\ res' = Reply("PATCH /api/notifications/:id/read", 200, NullNum)
        /\ UNCHANGED assigned

\* A plausible slip: the filter on the user left out.
MarkedForEveryone(list, user) ==
    [i \in 1..Len(list) |-> [list[i] EXCEPT !.read = TRUE]]

\* db.notifications.filter(n => n.user === user).forEach(n => n.read = true)
MarkedFor(list, user) ==
    [i \in 1..Len(list) |->
        IF list[i].user = user THEN [list[i] EXCEPT !.read = TRUE] ELSE list[i]]

\* app.patch('/api/notifications/:user/read-all')
MarkAllRead(user, wok) ==
    LET db2 == [db EXCEPT !.notifications = MarkedFor(@, user)]
    IN  /\ SetDB(db2)
        /\ saveDB(db2, wok)
        /\ res' = IF wok THEN Reply("PATCH /api/notifications/:user/read-all", 200, NullNum)
                  ELSE ServerError("PATCH /api/notifications/:user/read-all")
        /\ UNCHANGED assigned

\* A plausible slip: pending counted without its filter.
GetStatsPendingUnfiltered ==
    [totalSections |-> Len(db.sections), totalComments |-> 0, totalQuestions |-> 0,
     resolved |-> Cardinality({i \in 1..Len(db.discussions) : Truthy(db.discussions[i].resolved)}),
     pending |-> Len(db.discussions), franciscoItems |-> 0, wifeItems |-> 0]

\* app.get('/api/stats'): the object it answers.
GetStats ==
    LET D == 1..Len(db.discussions)
        d(i) == db.discussions[i]
    IN  [totalSections |-> Len(db.sections),
         totalComments |-> Cardinality({i \in D : d(i).type = "comment"}),
         totalQuestions |-> Cardinality({i \in D : d(i).type = "question"}),
         resolved |-> Cardinality({i \in D : Truthy(d(i).resolved)}),
         pending |-> Cardinality({i \in D : ~Truthy(d(i).resolved)}),
         franciscoItems |-> Cardinality({i \in D : d(i).author = "Francisco"}),
         wifeItems |-> Cardinality({i \in D : d(i).author = "Wife"})]

\* function loadDB(): the document it returns.  JSON.parse throwing on a file that
\* does not parse is caught and logged, and control falls through to initializeDB()
\* exactly as when the file does not exist.
loadDB == IF disk.exists /\ disk.parses THEN disk.data ELSE SeedDB

\* The process is stopped and started again: the module loads anew, with empty
\* session store, security log and limiter stores, and db = loadDB().
Restart ==
    /\ SetDB(loadDB)
    /\ disk' = [exists |-> TRUE, parses |-> TRUE, data |-> loadDB]
    /\ sessions' = {}
    /\ securityLog' = <<>>
    /\ loginHits' = [s \in DOMAIN loginHits |-> 0]
    /\ apiHits' = [s \in DOMAIN apiHits |-> 0]
    /\ res' = [route |-> "", status |-> 0, id |-> NullNum, token |-> ""]
    /\ UNCHANGED <<envVars, assigned, issued, revoked>>

----------------------------------------------------------------------------
(* Passwords.  A value of req.body.password or of the environment is a record  *)
(* [type, chars]: its typeof and, for a string, its characters.                *)

Str(chars) == [type |-> "string", chars |-> chars]
JsUndefined == [type |-> "undefined", chars |-> <<>>]
JsNumber(digits) == [type |-> "number", chars |-> digits]

\* ToBoolean of such a value.
TruthyValue(v) ==
    CASE v.type = "string" -> v.chars # <<>>
      [] v.type = "number" -> v.chars # <<"0">>
      [] v.type = "boolean" -> v.chars = <<"true">>
      [] v.type \in {"undefined", "null"} -> FALSE
      [] OTHER -> TRUE

\* a || b on such values.
OrValue(a, b) == IF TruthyValue(a) THEN a ELSE b

\* The UTF-8 bytes Buffer.from gives one character: an ASCII character is one byte
\* (named by the character), U+00E9 is two, and a lone surrogate is written as
\* U+FFFD, the replacement character.
Utf8Char(c) ==
    CASE c = "U+00E9" -> <<"C3", "A9">>
      [] c \in {"U+FFFD", "U+D800"} -> <<"EF", "BF", "BD">>
      [] OTHER -> <<c>>

RECURSIVE BufferFrom(_)
\* Buffer.from(string): its UTF-8 encoding.
BufferFrom(chars) ==
    IF chars = <<>> THEN <<>> ELSE Utf8Char(Head(chars)) \o BufferFrom(Tail(chars))

\* function secureCompare(input, secret)
secureCompare(input, secret) ==
    IF input.type # "string" \/ secret.type # "string" THEN FALSE
    ELSE LET inputBuffer == BufferFrom(input.chars)
             secretBuffer == BufferFrom(secret.chars)
         IN  IF Len(inputBuffer) # Len(secretBuffer) THEN FALSE
             ELSE inputBuffer = secretBuffer

\* 'family2026'
DefaultPassword == Str(<<"f", "a", "m", "i", "l", "y", "2", "0", "2", "6">>)

\* const APP_PASSWORD = process.env.APP_PASSWORD || 'family2026'
AppPasswordOf(env) == OrValue(env, DefaultPassword)

----------------------------------------------------------------------------
(* Security log and session store *)

SessionTTL == 7         \* 7 * 24 * 60 * 60 * 1000 ms, in days
MAX_LOG_SIZE == 1000
LoginMax == 5           \* loginLimiter: max
ApiMax == 100           \* apiLimiter: max

\* A plausible slip: the pop() of the oldest event left out.
logSecurityEventUnbounded(type, src) ==
    <<[timestamp |-> now, type |-> type, ip |-> src]>> \o securityLog

\* function logSecurityEvent(type, details, req): the log after the call.
logSecurityEvent(type, src) ==
    LET event == [timestamp |-> now, type |-> type, ip |-> src]
        log == <<event>> \o securityLog
    IN  IF Len(log) > MAX_LOG_SIZE THEN SubSeq(log, 1, Len(log) - 1) ELSE log

TokenNames == <<"t1", "t2", "t3", "t4", "t5", "t6">>

\* function generateToken(): 32 random bytes in hex.  Two draws never collide, and
\* no client guesses a draw: the token is a name no session has had.
generateToken == TokenNames[Cardinality(issued) + 1]

\* const expiresAt = Date.now() + (7 * 24 * 60 * 60 * 1000)
SessionExpiry == now + SessionTTL

\* function createSession(): sessions.set(token, { expiresAt }).
createSession(token) ==
    {s \in sessions : s.token # token} \cup {[token |-> token, expiresAt |-> SessionExpiry]}

\* A plausible slip: the expiry test left out.
validateSessionNoExpiry(token) ==
    /\ Truthy(token)
    /\ \E s \in sessions : s.token = token

\* function validateSession(token): what it returns.
validateSession(token) ==
    /\ Truthy(token)
    /\ \E s \in sessions : s.token = token /\ ~(now > s.expiresAt)

\* function validateSession(token): the session store after the call, which deletes
\* the entry it finds expired.
SessionsAfterValidate(token) ==
    IF Truthy(token)
    THEN {s \in sessions : ~(s.token = token /\ now > s.expiresAt)}
    ELSE sessions

\* sessions.delete(token)
SessionsWithout(token) == {s \in sessions : s.token # token}

AuthReply(route, status, token) ==
    [route |-> route, status |-> status, id |-> NullNum, token |-> token]

----------------------------------------------------------------------------
(* Middleware.  `next` is the rest of the chain: what runs when the middleware *)
(* calls next().  Each handler writes res and its own variables; a middleware   *)
(* that answers itself leaves every variable behind it unchanged.              *)

\* The limiters' stores count every request of the window, also a rejected one.
\* The model stops counting one past the limit, where the answer no longer changes.
Hit(hits, src, max) == [hits EXCEPT ![src] = IF @ > max THEN @ ELSE @ + 1]

\* A plausible slip: the login limiter counting without ever rejecting.
LoginLimiterOff(src, next) ==
    /\ loginHits' = Hit(loginHits, src, LoginMax)
    /\ next

\* app.use('/api/login', loginLimiter)
LoginLimiter(src, next) ==
    /\ loginHits' = Hit(loginHits, src, LoginMax)
    /\ IF loginHits'[src] > LoginMax
       THEN /\ res' = AuthReply("POST /api/login", 429, "")
            /\ UNCHANGED <<apiHits, storeVars, authVars, assigned>>
       ELSE next

\* app.use('/api/', apiLimiter)
ApiLimiter(src, route, next) ==
    /\ apiHits' = Hit(apiHits, src, ApiMax)
    /\ IF apiHits'[src] > ApiMax
       THEN /\ res' = AuthReply(route, 429, "")
            /\ UNCHANGED <<storeVars, authVars, assigned>>
       ELSE next

\* req.path === '/login' || req.path === '/api/login' || req.path === '/api/verify'
AuthExempt(route) == route \in {"POST /api/login", "GET /api/verify"}

\* A plausible slip: the gate calling next() without the check.
requireAuthOpen(route, cookie, header, next) == next

\* function requireAuth(req, res, next), for a request to an /api/ path
requireAuth(route, cookie, header, next) ==
    IF AuthExempt(route) THEN next
    ELSE LET token == Or(cookie, header)
         IN  IF ~validateSession(token)
             THEN /\ res' = AuthReply(route, 401, "")
                  /\ sessions' = SessionsAfterValidate(token)
                  /\ UNCHANGED <<storeVars, securityLog, assigned, issued, revoked>>
             ELSE next

----------------------------------------------------------------------------
(* Auth routes *)

\* app.post('/api/login')
Login(src, password) ==
    IF secureCompare(OrValue(password, Str(<<>>)), APP_PASSWORD)
    THEN LET token == generateToken
         IN  /\ Cardinality(issued) < MaxSessions
             /\ sessions' = createSession(token)
             /\ issued' = issued \cup {[token |-> token, createdAt |-> now]}
             /\ securityLog' = logSecurityEvent("LOGIN_SUCCESS", src)
             /\ res' = AuthReply("POST /api/login", 200, token)
             /\ UNCHANGED <<storeVars, assigned, revoked>>
    ELSE /\ securityLog' = logSecurityEvent("LOGIN_FAILED", src)
         /\ res' = AuthReply("POST /api/login", 401, "")
         /\ UNCHANGED <<storeVars, assigned, sessions, issued, revoked>>

\* app.get('/api/verify')
Verify(cookie, header) ==
    LET token == Or(header, cookie)
    IN  /\ res' = AuthReply("GET /api/verify", IF validateSession(token) THEN 200 ELSE 401, "")
        /\ sessions' = SessionsAfterValidate(token)
        /\ UNCHANGED <<storeVars, securityLog, assigned, issued, revoked>>

\* app.post('/api/logout')
Logout(cookie, header) ==
    LET token == Or(header, cookie)
    IN  /\ sessions' = IF Truthy(token) THEN SessionsWithout(token) ELSE sessions
        /\ revoked' = revoked \cup {s.token : s \in sessions \ sessions'}
        /\ res' = AuthReply("POST /api/logout", 200, "")
        /\ UNCHANGED <<storeVars, securityLog, assigned, issued>>

\* The clock advances by `d` days.
Tick(d) ==
    /\ now + d <= MaxTime
    /\ now' = now + d
    /\ UNCHANGED <<storeVars, authVars, limitVars, APP_PASSWORD, clientVars, res, assigned>>

----------------------------------------------------------------------------
(* The state once the module has loaded *)

\* const state = {currentUser: 'Francisco', ..., notifications: []} and the fetch that
\* init()'s renderNotifications() has sent.
InitClient ==
    /\ state = [currentUser |-> "Francisco", notifications |-> <<>>]
    /\ requests = <<[kind |-> "fetch", user |-> "Francisco", id |-> NullNum,
                     stage |-> "sent", body |-> <<>>]>>
    /\ shownFor = ""

NoResponse == [route |-> "", status |-> 0, id |-> NullNum, token |-> ""]

Sources == {"10.0.0.1"}

\* process.env.APP_PASSWORD: unset, or a password the operator chose.
EnvPasswords == {JsUndefined, Str(<<"p", "U+FFFD">>)}

\* No sessions, no security events, empty limiter stores, and, with no data.json
\* yet, a database that loadDB() has seeded and written.
InitWith(env) ==
    /\ sections = SeedDB.sections
    /\ discussions = SeedDB.discussions
    /\ notifications = SeedDB.notifications
    /\ nextId = SeedDB.nextId
    /\ disk = [exists |-> TRUE, parses |-> TRUE, data |-> SeedDB]
    /\ sessions = {}
    /\ securityLog = <<>>
    /\ loginHits = [s \in Sources |-> 0]
    /\ apiHits = [s \in Sources |-> 0]
    /\ APP_PASSWORD = AppPasswordOf(env)
    /\ now = 0
    /\ res = NoResponse
    /\ assigned = {}
    /\ issued = {}
    /\ revoked = {}
    /\ InitClient

Init == InitWith(JsUndefined)

----------------------------------------------------------------------------
(* The discussion store: the handlers, as reached by admitted requests *)

\* The known users: ['Francisco', 'Wife'].
KnownUsers == {"Francisco", "Wife"}

\* The requests' inputs.
TypeInputs == {"comment", "question"}
AuthorInputs == KnownUsers
TextInputs == {"text"}
SectionIdInputs == {<<"1">>}
ResolvedInputs == {JsTrue, JsFalse, Undefined}
ResolvedByInputs == {"Francisco", Undefined}
\* Route parameters: every id the bounds let the store assign, one more, and two
\* strings that are not numerals.
RawIds == {<<Digits[n + 1]>> : n \in 1..(MaxNotifications + 1)} \cup {<<"1", "x">>, <<"x">>}

\* A request that notifies is taken while the bound leaves room for its notification.
CanNotify == nextId.notification <= MaxNotifications

StoreCreate ==
    /\ CanNotify
    /\ \E s \in SectionIdInputs, t \in TypeInputs, x \in TextInputs, a \in AuthorInputs :
            CreateDiscussion(s, t, x, a, TRUE)
    /\ UNCHANGED <<authVars, limitVars, envVars>>

StoreReply ==
    /\ CanNotify
    /\ \E r \in RawIds, x \in TextInputs, a \in AuthorInputs : AddReply(r, x, a, TRUE)
    /\ UNCHANGED <<authVars, limitVars, envVars>>

StoreResolve ==
    /\ \E r \in RawIds, v \in ResolvedInputs, by \in ResolvedByInputs :
            SetResolved(r, v, by, TRUE)
    /\ UNCHANGED <<authVars, limitVars, envVars>>

StoreDelete ==
    /\ \E r \in RawIds : DeleteDiscussion(r, TRUE)
    /\ UNCHANGED <<authVars, limitVars, envVars>>

Next == StoreCreate \/ StoreReply \/ StoreResolve \/ StoreDelete

Spec == Init /\ [][Next]_vars

----------------------------------------------------------------------------
(* The session store and the auth routes, as reached by requests the limiters  *)
(* admit.                                                                      *)

\* What a request carries as auth_token cookie or x-auth-token header: nothing, a
\* token the server has issued, or a string it never issues.
Credentials == {s.token : s \in issued} \cup {"", "forged"}

PasswordInputs ==
    { DefaultPassword,
      Str(<<"p", "U+FFFD">>),
      Str(<<"p", "U+D800">>),
      Str(<<"p", "U+00E9", "a">>),
      Str(<<"f", "a", "m">>),
      Str(<<>>),
      JsUndefined,
      JsNumber(<<"5">>),
      [type |-> "object", chars |-> DefaultPassword.chars] }

\* The clock's steps: a session's whole lifetime, or a day more.
TickSteps == {SessionTTL, SessionTTL + 1}

InitSession == \E env \in EnvPasswords : InitWith(env)

SessionLogin ==
    /\ Len(securityLog) < MaxLogins
    /\ \E src \in Sources, pw \in PasswordInputs :
            requireAuth("POST /api/login", "", "", Login(src, pw))
    /\ UNCHANGED <<limitVars, envVars>>

SessionVerify ==
    /\ \E c \in Credentials, h \in Credentials :
            requireAuth("GET /api/verify", c, h, Verify(c, h))
    /\ UNCHANGED <<limitVars, envVars>>

SessionLogout ==
    /\ \E c \in Credentials, h \in Credentials :
            requireAuth("POST /api/logout", c, h, Logout(c, h))
    /\ UNCHANGED <<limitVars, envVars>>

SessionTick == \E d \in TickSteps : Tick(d)

NextSession == SessionLogin \/ SessionVerify \/ SessionLogout \/ SessionTick

SpecSession == InitSession /\ [][NextSession]_vars

----------------------------------------------------------------------------
(* The whole middleware chain: the rate limiters, the auth gate, the routes    *)

\* express-rate-limit's store forgets a window's hits when the window has passed.
LoginWindowReset ==
    /\ \E src \in Sources : loginHits[src] > 0 /\ loginHits' = [loginHits EXCEPT ![src] = 0]
    /\ UNCHANGED <<storeVars, authVars, apiHits, envVars, res, assigned>>

ApiWindowReset ==
    /\ \E src \in Sources : apiHits[src] > 0 /\ apiHits' = [apiHits EXCEPT ![src] = 0]
    /\ UNCHANGED <<storeVars, authVars, loginHits, envVars, res, assigned>>

\* POST /api/login through the chain.
LoginRequest(src, pw) ==
    /\ LoginLimiter(src,
         ApiLimiter(src, "POST /api/login",
           requireAuth("POST /api/login", "", "", Login(src, pw))))
    /\ UNCHANGED envVars

\* app.get('/api/discussions'): the answer is ListDiscussions.
GetDiscussions ==
    /\ res' = Reply("GET /api/discussions", 200, NullNum)
    /\ UNCHANGED <<storeVars, assigned>>

\* GET /api/discussions through the chain.
ListRequest(src, cookie, header) ==
    /\ ApiLimiter(src, "GET /api/discussions",
         requireAuth("GET /api/discussions", cookie, header,
           GetDiscussions /\ UNCHANGED authVars))
    /\ UNCHANGED <<loginHits, envVars>>

\* POST /api/discussions through the chain.
CreateRequest(src, cookie, header, s, t, x, a) ==
    /\ ApiLimiter(src, "POST /api/discussions",
         requireAuth("POST /api/discussions", cookie, header,
           CreateDiscussion(s, t, x, a, TRUE) /\ UNCHANGED authVars))
    /\ UNCHANGED <<loginHits, envVars>>

\* The login limiter: login attempts and other API requests of one source, with
\* the two windows passing.
WrongPassword == Str(<<"f", "a", "m">>)

LimitLogin ==
    /\ Len(securityLog) < MaxAttempts
    /\ \E src \in Sources, pw \in {DefaultPassword, WrongPassword} : LoginRequest(src, pw)

LimitList == \E src \in Sources : ListRequest(src, "", "")

NextLimit == LimitLogin \/ LimitList \/ LoginWindowReset \/ ApiWindowReset

SpecLimit == Init /\ [][NextLimit]_vars

\* The auth gate: requests to a protected route with every credential, a login,
\* and the clock.
GateLogin ==
    /\ Len(securityLog) < MaxGateLogins
    /\ \E src \in Sources, pw \in {DefaultPassword, WrongPassword} : LoginRequest(src, pw)

GateCreate ==
    \E src \in Sources, c \in Credentials, h \in Credentials :
        /\ CanNotify \/ ~validateSession(Or(c, h))
        /\ CreateRequest(src, c, h, <<"1">>, "comment", "text", "Francisco")

GateTick == Tick(SessionTTL + 1)

NextGate == GateLogin \/ GateCreate \/ GateTick \/ ApiWindowReset

SpecGate == Init /\ [][NextGate]_vars

----------------------------------------------------------------------------
(* The store and its file: every mutating handler, with bodies the handlers do *)
(* not validate throughout, writes that succeed, and restarts of the process.  *)

\* Bodies of POST /api/discussions: a well-formed one, and one whose section_id is
\* not a numeral.
PersistBodies ==
    { [section_id |-> <<"1">>, type |-> "comment", text |-> "text", author |-> "Francisco"],
      [section_id |-> <<"x">>, type |-> "question", text |-> "text", author |-> "Wife"] }

\* Bodies of PATCH /api/discussions/:id/resolve.
ResolveBodies ==
    { [resolved |-> JsTrue, resolved_by |-> "Francisco"],
      [resolved |-> JsTrue, resolved_by |-> Undefined],
      [resolved |-> JsFalse, resolved_by |-> "Wife"] }

\* Route parameters :id and :user.
PersistIds == {<<"1">>, <<"2">>, <<"9">>}
UserParams == {"Francisco", "Wife", "Guest"}

PersistCreate ==
    /\ CanNotify
    /\ \E b \in PersistBodies : CreateDiscussion(b.section_id, b.type, b.text, b.author, TRUE)
    /\ UNCHANGED <<authVars, limitVars, envVars>>

PersistReply ==
    /\ CanNotify
    /\ \E r \in PersistIds : AddReply(r, "text", "Wife", TRUE)
    /\ UNCHANGED <<authVars, limitVars, envVars>>

PersistResolve ==
    /\ \E r \in PersistIds, b \in ResolveBodies : SetResolved(r, b.resolved, b.resolved_by, TRUE)
    /\ UNCHANGED <<authVars, limitVars, envVars>>

PersistDelete ==
    /\ \E r \in PersistIds : DeleteDiscussion(r, TRUE)
    /\ UNCHANGED <<authVars, limitVars, envVars>>

PersistMarkRead ==
    /\ \E r \in PersistIds : MarkRead(r, TRUE)
    /\ UNCHANGED <<authVars, limitVars, envVars>>

PersistMarkAllRead ==
    /\ \E u \in UserParams : MarkAllRead(u, TRUE)
    /\ UNCHANGED <<authVars, limitVars, envVars>>

PersistUpdateSection ==
    /\ \E r \in {<<"1">>, <<"x">>} : UpdateSection(r, "Plan", "text", TRUE)
    /\ UNCHANGED <<authVars, limitVars, envVars>>

NextPersist ==
    \/ PersistCreate \/ PersistReply \/ PersistResolve \/ PersistDelete
    \/ PersistMarkRead \/ PersistMarkAllRead \/ PersistUpdateSection \/ Restart

SpecPersist == Init /\ [][NextPersist]_vars

----------------------------------------------------------------------------
(* Create, reply and delete with bodies the handlers do not validate *)

\* Bodies of POST /api/discussions: the two above, and ones with an unknown type,
\* a blank text, an unknown author, and no property at all.
CreateBodies ==
    PersistBodies \cup
    { [section_id |-> <<>>, type |-> "bogus", text |-> "text", author |-> "Francisco"],
      [section_id |-> <<"1">>, type |-> "comment", text |-> " ", author |-> "Wife"],
      [section_id |-> <<"1">>, type |-> "question", text |-> "text", author |-> "Guest"],
      [section_id |-> <<>>, type |-> Undefined, text |-> Undefined, author |-> Undefined] }

LenientCreate ==
    /\ CanNotify
    /\ \E b \in CreateBodies : CreateDiscussion(b.section_id, b.type, b.text, b.author, TRUE)
    /\ UNCHANGED <<authVars, limitVars, envVars>>

LenientReply ==
    /\ CanNotify
    /\ \E r \in PersistIds, a \in UserParams : AddReply(r, "text", a, TRUE)
    /\ UNCHANGED <<authVars, limitVars, envVars>>

NextLenient == LenientCreate \/ LenientReply \/ PersistDelete

SpecLenient == Init /\ [][NextLenient]_vars

----------------------------------------------------------------------------
(* The notification list of a server that starts on a data.json earlier runs   *)
(* have filled.                                                                *)

\* A data.json after n discussions were created by Francisco, each notifying Wife,
\* and deleted again.
InboxFile(n) ==
    [SeedDB EXCEPT
        !.notifications =
            [i \in 1..n |->
                [id |-> i, user |-> "Wife", type |-> "comment",
                 message |-> <<"Francisco", " added a ", "comment">>,
                 discussion_id |-> i, read |-> FALSE, created_at |-> 0]],
        !.nextId = [discussion |-> n + 1, reply |-> 1, notification |-> n + 1]]

InitInbox ==
    \E n \in {NotificationLimit - 1, NotificationLimit} :
        /\ sections = InboxFile(n).sections
        /\ discussions = InboxFile(n).discussions
        /\ notifications = InboxFile(n).notifications
        /\ nextId = InboxFile(n).nextId
        /\ disk = [exists |-> TRUE, parses |-> TRUE, data |-> InboxFile(n)]
        /\ sessions = {}
        /\ securityLog = <<>>
        /\ loginHits = [s \in Sources |-> 0]
        /\ apiHits = [s \in Sources |-> 0]
        /\ APP_PASSWORD = AppPasswordOf(JsUndefined)
        /\ now = 0
        /\ res = NoResponse
        /\ assigned = 1..n
        /\ issued = {}
        /\ revoked = {}
        /\ InitClient

InboxCreate ==
    /\ Len(notifications) < NotificationLimit + MaxNotifications
    /\ \E a \in KnownUsers : CreateDiscussion(<<"1">>, "comment", "text", a, TRUE)
    /\ UNCHANGED <<authVars, limitVars, envVars>>

InboxList ==
    /\ \E u \in UserParams : ListNotifications(u)
    /\ UNCHANGED <<authVars, limitVars, envVars>>

InboxTick == Tick(MaxTime \div 2)

NextInbox == InboxCreate \/ InboxList \/ InboxTick

SpecInbox == InitInbox /\ [][NextInbox]_vars

----------------------------------------------------------------------------
(* The security log of a server that another client has nearly filled          *)

OtherSource == "10.0.0.2"

\* The log after n failed logins of the other client at time 0.
FilledLog(n) == [i \in 1..n |-> [timestamp |-> 0, type |-> "LOGIN_FAILED", ip |-> OtherSource]]

InitLog ==
    /\ sections = SeedDB.sections
    /\ discussions = SeedDB.discussions
    /\ notifications = SeedDB.notifications
    /\ nextId = SeedDB.nextId
    /\ disk = [exists |-> TRUE, parses |-> TRUE, data |-> SeedDB]
    /\ sessions = {}
    /\ \E n \in {MAX_LOG_SIZE - 1, MAX_LOG_SIZE} : securityLog = FilledLog(n)
    /\ loginHits = [s \in Sources |-> 0]
    /\ apiHits = [s \in Sources |-> 0]
    /\ APP_PASSWORD = AppPasswordOf(JsUndefined)
    /\ now = 0
    /\ res = NoResponse
    /\ assigned = {}
    /\ issued = {}
    /\ revoked = {}
    /\ InitClient

\* A login of the modelled source is taken while the log holds fewer than MaxLogins
\* events of it.
LogLogin ==
    /\ Cardinality({i \in 1..Len(securityLog) : securityLog[i].ip \in Sources}) < MaxLogins
    /\ \E src \in Sources, pw \in {DefaultPassword, WrongPassword} :
            requireAuth("POST /api/login", "", "", Login(src, pw))
    /\ UNCHANGED <<limitVars, envVars>>

LogTick == Tick(MaxTime \div 2)

NextLog == LogLogin \/ LogTick \/ Restart

SpecLog == InitLog /\ [][NextLog]_vars

----------------------------------------------------------------------------
(* Every mutating handler, with writes of data.json that may fail *)

FlushIds == {<<"1">>}

FlushUsers == {"Wife"}

FlushCreate ==
    /\ CanNotify
    /\ \E w \in BOOLEAN : CreateDiscussion(<<"1">>, "comment", "text", "Francisco", w)
    /\ UNCHANGED <<authVars, limitVars, envVars>>

FlushReply ==
    /\ CanNotify
    /\ \E r \in FlushIds, w \in BOOLEAN : AddReply(r, "text", "Wife", w)
    /\ UNCHANGED <<authVars, limitVars, envVars>>

FlushResolve ==
    /\ \E r \in FlushIds, w \in BOOLEAN : SetResolved(r, JsTrue, "Francisco", w)
    /\ UNCHANGED <<authVars, limitVars, envVars>>

FlushDelete ==
    /\ \E r \in FlushIds, w \in BOOLEAN : DeleteDiscussion(r, w)
    /\ UNCHANGED <<authVars, limitVars, envVars>>

FlushMarkRead ==
    /\ \E r \in FlushIds, w \in BOOLEAN : MarkRead(r, w)
    /\ UNCHANGED <<authVars, limitVars, envVars>>

FlushMarkAllRead ==
    /\ \E u \in FlushUsers, w \in BOOLEAN : MarkAllRead(u, w)
    /\ UNCHANGED <<authVars, limitVars, envVars>>

FlushUpdateSection ==
    /\ \E w \in BOOLEAN : UpdateSection(<<"1">>, "Plan", "text", w)
    /\ UNCHANGED <<authVars, limitVars, envVars>>

NextFlush ==
    \/ FlushCreate \/ FlushReply \/ FlushResolve \/ FlushDelete
    \/ FlushMarkRead \/ FlushMarkAllRead \/ FlushUpdateSection

SpecFlush == Init /\ [][NextFlush]_vars

----------------------------------------------------------------------------
(* Reply threads: two discussions, replies to either, and the operations that  *)
(* touch discussions                                                           *)

ThreadCreate ==
    /\ nextId.discussion <= MaxDiscussions
    /\ CreateDiscussion(<<"1">>, "comment", "text", "Francisco", TRUE)
    /\ UNCHANGED <<authVars, limitVars, envVars>>

ThreadReply ==
    /\ \E r \in PersistIds :
        /\ nextId.reply <= MaxReplies \/ FindDiscussion(discussions, ParseInt(r)) = 0
        /\ AddReply(r, "text", "Wife", TRUE)
    /\ UNCHANGED <<authVars, limitVars, envVars>>

ThreadResolve ==
    /\ \E r \in PersistIds, b \in ResolveBodies : SetResolved(r, b.resolved, b.resolved_by, TRUE)
    /\ UNCHANGED <<authVars, limitVars, envVars>>

ThreadDelete ==
    /\ \E r \in PersistIds : DeleteDiscussion(r, TRUE)
    /\ UNCHANGED <<authVars, limitVars, envVars>>

NextThread == ThreadCreate \/ ThreadReply \/ ThreadResolve \/ ThreadDelete \/ Restart

SpecThread == Init /\ [][NextThread]_vars

----------------------------------------------------------------------------
(* Restarts over a data.json that may be missing or damaged.  writeFileSync     *)
(* truncates the file and then writes it, so a process that dies inside saveDB *)
(* leaves a file that exists and does not parse; no request is served between  *)
(* that moment and the next start.                                             *)

FileIntact == disk.exists /\ disk.parses

\* The process dies inside the writeFileSync of a handler's saveDB.
CutWrite ==
    /\ FileIntact
    /\ disk' = [disk EXCEPT !.parses = FALSE]
    /\ UNCHANGED <<sections, discussions, notifications, nextId, authVars, limitVars,
                   envVars, res, assigned>>

\* data.json is removed while the process is stopped.
RemoveFile ==
    /\ FileIntact
    /\ disk' = [disk EXCEPT !.exists = FALSE]
    /\ UNCHANGED <<sections, discussions, notifications, nextId, authVars, limitVars,
                   envVars, res, assigned>>

ReloadCreate == FileIntact /\ PersistCreate

ReloadReply == FileIntact /\ PersistReply

ReloadMarkRead == FileIntact /\ PersistMarkRead

ReloadDelete == FileIntact /\ PersistDelete

NextReload ==
    \/ ReloadCreate \/ ReloadReply \/ ReloadMarkRead \/ ReloadDelete
    \/ CutWrite \/ RemoveFile \/ Restart

SpecReload == Init /\ [][NextReload]_vars

----------------------------------------------------------------------------
(* The browser: the notification poll, the user selector and a click on a      *)
(* notification.  An `await fetch(...)` is a request in `requests`: sent, then   *)
(* answered by the server's handler, then delivered, which resumes the async    *)
(* function after its await.  Requests are answered and delivered in any order. *)

\* `${id}` in a template string: the decimal digits of a number.
RECURSIVE IdInPath(_)
IdInPath(n) ==
    IF n < 10 THEN <<Digits[n + 1]>>
    ELSE IdInPath(n \div 10) \o <<Digits[(n % 10) + 1]>>

\* fetch(`/api/notifications/${user}`), as renderNotifications() calls it with
\* state.currentUser.
FetchNotificationsFor(user) ==
    [kind |-> "fetch", user |-> user, id |-> NullNum, stage |-> "sent", body |-> <<>>]

\* fetch(`/api/notifications/${id}/read`, {method: 'PATCH'})
MarkNotificationRead(id) ==
    [kind |-> "markRead", user |-> "", id |-> id, stage |-> "sent", body |-> <<>>]

CanSend == Len(requests) < MaxRequests

\* setInterval(async () => { await renderNotifications(); }, 30000)
Poll ==
    /\ CanSend
    /\ requests' = Append(requests, FetchNotificationsFor(state.currentUser))
    /\ UNCHANGED <<storeVars, authVars, limitVars, APP_PASSWORD, now, res, assigned,
                   state, shownFor>>

\* elements.currentUser 'change' listener
UserSwitch ==
    /\ CanSend
    /\ \E u \in KnownUsers \ {state.currentUser} :
        /\ state' = [state EXCEPT !.currentUser = u]
        /\ requests' = Append(requests, FetchNotificationsFor(u))
    /\ UNCHANGED <<storeVars, authVars, limitVars, APP_PASSWORD, now, res, assigned,
                   shownFor>>

\* handleNotificationClick, up to its await: a click on a rendered notification.
Click ==
    /\ CanSend
    /\ \E k \in 1..Len(state.notifications) :
        requests' = Append(requests, MarkNotificationRead(state.notifications[k].id))
    /\ UNCHANGED <<storeVars, authVars, limitVars, APP_PASSWORD, now, res, assigned,
                   state, shownFor>>

\* The add form's submit listener: createDiscussion with author state.currentUser.
Submit ==
    /\ CanNotify
    /\ CreateDiscussion(<<"1">>, "comment", "text", state.currentUser, TRUE)
    /\ UNCHANGED <<authVars, limitVars, envVars>>

\* The server handles a request that was sent.
Serve ==
    /\ \E n \in 1..Len(requests) :
        /\ requests[n].stage = "sent"
        /\ IF requests[n].kind = "fetch"
           THEN /\ ListNotifications(requests[n].user)
                /\ requests' = [requests EXCEPT ![n].stage = "answered",
                                                ![n].body = GetNotifications(requests[n].user)]
           ELSE /\ MarkRead(IdInPath(requests[n].id), TRUE)
                /\ requests' = [requests EXCEPT ![n].stage = "answered"]
    /\ UNCHANGED <<authVars, limitVars, APP_PASSWORD, now, state, shownFor>>

\* A response arrives and the async function continues after its await:
\* renderNotifications assigns state.notifications; handleNotificationClick calls
\* renderNotifications(), which sends a fetch for the user selected by then.
Deliver ==
    /\ \E n \in 1..Len(requests) :
        /\ requests[n].stage = "answered"
        /\ IF requests[n].kind = "fetch"
           THEN /\ state' = [state EXCEPT !.notifications = requests[n].body]
                /\ shownFor' = requests[n].user
                /\ requests' = [requests EXCEPT ![n].stage = "done"]
           ELSE /\ requests' = Append([requests EXCEPT ![n].stage = "done"],
                                      FetchNotificationsFor(state.currentUser))
                /\ UNCHANGED <<state, shownFor>>
    /\ UNCHANGED <<storeVars, authVars, limitVars, APP_PASSWORD, now, res, assigned>>

NextClient == Poll \/ UserSwitch \/ Click \/ Submit \/ Serve \/ Deliver

SpecClient == Init /\ [][NextClient]_vars

----------------------------------------------------------------------------
(* Steps of the handlers, as the properties below name them *)

CreateStep(a) ==
    \E s \in SectionIdInputs, t \in TypeInputs, x \in TextInputs, w \in BOOLEAN :
        CreateDiscussion(s, t, x, a, w)

ReplyStep(r, a) == \E x \in TextInputs, w \in BOOLEAN : AddReply(r, x, a, w)

ResolveStep(r, v) == \E by \in ResolvedByInputs, w \in BOOLEAN : SetResolved(r, v, by, w)

\* No stored discussion has the id the route parameter spells.
NoSuchDiscussion(r) == \A i \in 1..Len(discussions) : discussions[i].id # ParseInt(r)

\* The notifications a step appends, as indexes of notifications'.
Added == (Len(notifications) + 1)..Len(notifications')

\* The step keeps every stored notification as it is and only appends.
OnlyAppends ==
    /\ Len(notifications') >= Len(notifications)
    /\ SubSeq(notifications', 1, Len(notifications)) = notifications

\* Exactly one notification per known user other than `a` is appended, each unread
\* and about discussion `id`, and none is addressed to `a`.
NotifiesOthers(a, id) ==
    /\ OnlyAppends
    /\ \A u \in KnownUsers \ {a} :
            Cardinality({k \in Added : notifications'[k].user = u}) = 1
    /\ \A k \in Added :
            /\ notifications'[k].user \in KnownUsers \ {a}
            /\ notifications'[k].read = FALSE
            /\ notifications'[k].discussion_id = id

\* The create request of the gate's specification.
GateStep(src, c, h) == CreateRequest(src, c, h, <<"1">>, "comment", "text", "Francisco")

\* Neither the cookie nor the header is a token that validates.
NoValidToken(c, h) == ~validateSession(c) /\ ~validateSession(h)

VerifyStep(c, h) == requireAuth("GET /api/verify", c, h, Verify(c, h))

LogoutStep(c, h) == requireAuth("POST /api/logout", c, h, Logout(c, h))

\* The token was issued, no logout has removed it, and it is at most 7 days old.
IssuedUnrevokedUnexpired(t) ==
    \E s \in issued : s.token = t /\ t \notin revoked /\ ~(now > s.createdAt + 7)

\* The store `store` holds an entry for token `t` that is past its expiry.
HoldsExpired(store, t) == \E s \in store : s.token = t /\ now > s.expiresAt

\* The step answered 429 and neither created a session nor logged an event.
RejectedUncompared ==
    /\ res'.status = 429
    /\ sessions' = sessions
    /\ securityLog' = securityLog

\* The step ran the comparison of a wrong password: one LOGIN_FAILED more.
ReachedComparison ==
    /\ res'.status = 401
    /\ Len(securityLog') = Len(securityLog) + 1
    /\ securityLog'[1].type = "LOGIN_FAILED"

----------------------------------------------------------------------------
(* C1: every successful create-discussion returns an id strictly greater than  *)
(* every discussion id assigned before it, deleted discussions included, and   *)
(* the discussion list read right after it holds an entry with that id.        *)
C1_CreateReturnsFreshListedId ==
    [][ \A a \in AuthorInputs :
            (CreateStep(a) /\ res'.status = 200) =>
                /\ \A i \in assigned : res'.id > i
                /\ \E k \in 1..Len(ListDiscussions') : ListDiscussions'[k].id = res'.id
      ]_vars

\* A create has just answered with an id, after an earlier discussion was deleted.
C1_Witness ==
    /\ res.route = "POST /api/discussions"
    /\ res.status = 200
    /\ \E k \in 1..Len(discussions) : discussions[k].id = res.id
    /\ \E i \in assigned :
            i < res.id /\ \A k \in 1..Len(discussions) : discussions[k].id # i

(* C2: a discussion creation and a reply creation by a known user U each add    *)
(* exactly one notification per other known user, unread and carrying the      *)
(* affected discussion's id, and none addressed to U.                          *)
C2_NotifiesEveryOtherUser ==
    [][ \A a \in KnownUsers :
            /\ CreateStep(a) =>
                    /\ Len(discussions') = Len(discussions) + 1
                    /\ NotifiesOthers(a, discussions'[Len(discussions')].id)
            /\ \A r \in RawIds :
                    (ReplyStep(r, a) /\ ~NoSuchDiscussion(r)) =>
                        \E i \in 1..Len(discussions) :
                            /\ Len(discussions'[i].replies) = Len(discussions[i].replies) + 1
                            /\ NotifiesOthers(a, discussions[i].id)
      ]_vars

\* A reply has just been added, and the last notification is the one it sent.
C2_Witness ==
    /\ res.route = "POST /api/discussions/:id/replies"
    /\ res.status = 200
    /\ Len(notifications) = 2
    /\ notifications[2].type = "reply"
    /\ notifications[1].type # "reply"
    /\ notifications[2].read = FALSE

(* C3: a reply to a discussion id that does not exist is answered 404 and       *)
(* changes nothing: no notification, no discussion, no reply, no id counter.   *)
C3_ReplyToMissingIs404 ==
    [][ \A r \in RawIds, a \in AuthorInputs :
            (ReplyStep(r, a) /\ NoSuchDiscussion(r)) =>
                /\ res'.status = 404
                /\ UNCHANGED <<sections, discussions, notifications, nextId, disk>>
      ]_vars

\* A reply to a missing id has been refused while a discussion is stored.
C3_Witness ==
    /\ res.route = "POST /api/discussions/:id/replies"
    /\ res.status = 404
    /\ Len(discussions) > 0

(* C4: in every reachable state a discussion that is not resolved has          *)
(* resolved_by = null and resolved_at = null.                                  *)
C4_UnresolvedHasNoAttribution ==
    \A i \in 1..Len(discussions) :
        ~Truthy(discussions[i].resolved) =>
            /\ discussions[i].resolved_by = Null
            /\ discussions[i].resolved_at = NullNum

\* set_resolved has just run and left a discussion unresolved beside a resolved one.
C4_Witness ==
    /\ res.route = "PATCH /api/discussions/:id/resolve"
    /\ \E i, j \in 1..Len(discussions) :
            /\ discussions[i].resolved = Undefined
            /\ discussions[i].resolved_by = Null
            /\ Truthy(discussions[j].resolved)
            /\ discussions[j].resolved_by = "Francisco"

(* C5: set_resolved on a discussion id that does not exist fails with NotFound  *)
(* (404) instead of reporting success, and changes no state.                   *)
C5_ResolveMissingIsNotFound ==
    [][ \A r \in RawIds, v \in ResolvedInputs :
            (ResolveStep(r, v) /\ NoSuchDiscussion(r)) =>
                /\ res'.status = 404
                /\ UNCHANGED <<sections, discussions, notifications, nextId, disk>>
      ]_vars

(* C6: a request to an /api/ path other than /api/login and /api/verify that   *)
(* carries no valid session token, in cookie or header, is answered 401 and    *)
(* changes no discussion, notification, section, id-counter or session state.  *)
C6_UnauthenticatedIs401AndChangesNothing ==
    [][ \A src \in Sources, c \in Credentials, h \in Credentials :
            (GateStep(src, c, h) /\ NoValidToken(c, h)) =>
                /\ res'.status = 401
                /\ UNCHANGED <<sections, discussions, notifications, nextId, disk>>
                /\ sessions' = sessions
      ]_vars

(* C6, amended: such a request is answered 401 when it reaches the auth gate   *)
(* and 429 when the API rate limiter rejects it first; either way no           *)
(* discussion, notification, section or id-counter state changes, and the only *)
(* session-store change is that the gate evicts the presented token's entry    *)
(* if it has expired.                                                          *)
C6_UnauthenticatedIsRefused ==
    [][ \A src \in Sources, c \in Credentials, h \in Credentials :
            (GateStep(src, c, h) /\ NoValidToken(c, h)) =>
                /\ res'.status = IF apiHits[src] >= 100 THEN 429 ELSE 401
                /\ UNCHANGED <<sections, discussions, notifications, nextId, disk>>
                /\ sessions' \subseteq sessions
                /\ \A s \in sessions \ sessions' :
                        /\ res'.status = 401
                        /\ s.token = Or(c, h)
                        /\ now > s.expiresAt
      ]_vars

\* The gate has just refused a create request that presented an expired token, and
\* the token's entry is gone from the session store.
C6_Witness ==
    /\ res.route = "POST /api/discussions"
    /\ res.status = 401
    /\ \E s \in issued :
            /\ now > s.createdAt + 7
            /\ \A e \in sessions : e.token # s.token

(* C7: validate(token) is true exactly when the token was issued by            *)
(* create_session, has not been revoked, and the time is not past creation     *)
(* plus 7 days; it is false for a missing, unknown or expired token, and a     *)
(* lookup of an expired token removes its entry from the session store.        *)
C7_ValidatesExactlyLiveIssuedTokens ==
    /\ [](\A t \in Credentials \cup {Undefined, Null} :
            validateSession(t) <=> IssuedUnrevokedUnexpired(t))
    /\ [][ \A c \in Credentials, h \in Credentials :
            /\ VerifyStep(c, h) => ~HoldsExpired(sessions', Or(h, c))
            /\ LogoutStep(c, h) => ~HoldsExpired(sessions', Or(c, h))
         ]_vars

\* A lookup has just refused an issued, never revoked token past its expiry and
\* removed its entry, while a younger session is still stored.
C7_Witness ==
    /\ res.route = "GET /api/verify"
    /\ res.status = 401
    /\ sessions # {}
    /\ \E s \in issued :
            /\ s.token \notin revoked
            /\ now > s.createdAt + 7
            /\ \A e \in sessions : e.token # s.token

(* C8: after POST /api/logout answers success to an authenticated request, the *)
(* session token that authenticated the request no longer validates, whatever  *)
(* combination of auth_token cookie and x-auth-token header it carried.        *)
C8_LogoutRevokesAuthenticatingToken ==
    [][ \A c \in Credentials, h \in Credentials :
            (LogoutStep(c, h) /\ validateSession(Or(c, h)) /\ res'.status = 200) =>
                ~(validateSession(Or(c, h)))'
      ]_vars

(* C9: of 6 login attempts with a wrong password by one source within one      *)
(* 15-minute window, the 6th is rejected by rate limiting before the password  *)
(* comparison: no session, no security event; the first 5 each reach the       *)
(* comparison.                                                                 *)
C9_SixthLoginIsRateLimited ==
    [][ \A src \in Sources :
            LoginRequest(src, WrongPassword) =>
                IF loginHits[src] >= 5
                THEN RejectedUncompared
                ELSE ReachedComparison
      ]_vars

(* C9, amended: the 6th is rejected as stated; each of the first 5 reaches the *)
(* comparison unless the general API limiter (100 requests per source per      *)
(* minute) rejects it first.                                                   *)
C9_SixthLoginIsRateLimitedByEitherLimiter ==
    [][ \A src \in Sources :
            LoginRequest(src, WrongPassword) =>
                IF loginHits[src] >= 5 \/ apiHits[src] >= 100
                THEN RejectedUncompared
                ELSE ReachedComparison
      ]_vars

\* The sixth attempt of a window has just been rejected: five failed logins are
\* logged, none more, and the API limiter is far from its limit.
C9_Witness ==
    /\ res.route = "POST /api/login"
    /\ res.status = 429
    /\ \E src \in Sources : loginHits[src] = 6 /\ apiHits[src] = 6
    /\ Len(securityLog) = 5
    /\ \A i \in 1..5 : securityLog[i].type = "LOGIN_FAILED"
    /\ sessions = {}

(* C10: a login request that reaches the handler succeeds exactly when the     *)
(* password is a string equal to the application password; on success exactly  *)
(* one new session is stored and its token returned, on failure the answer is  *)
(* 401 and the session store is unchanged.                                     *)
C10_LoginSucceedsIffPasswordEqual ==
    [][ \A src \in Sources, pw \in PasswordInputs :
            Login(src, pw) =>
                IF pw.type = "string" /\ pw.chars = APP_PASSWORD.chars
                THEN /\ res'.status = 200
                     /\ \A s \in sessions : s.token # res'.token
                     /\ \E s \in sessions' : s.token = res'.token /\ sessions' = sessions \cup {s}
                ELSE /\ res'.status = 401
                     /\ sessions' = sessions
      ]_vars

\* The routes that write the database.
MutatingRoutes ==
    { "POST /api/discussions", "POST /api/discussions/:id/replies",
      "PATCH /api/discussions/:id/resolve", "DELETE /api/discussions/:id",
      "PATCH /api/notifications/:id/read", "PATCH /api/notifications/:user/read-all",
      "PUT /api/sections/:id" }

(* C11: whenever a mutating operation answers success, the persisted state      *)
(* already contains the mutation: with writes that do not fail, the file holds *)
(* the in-memory state, as JSON writes it, at every success response.          *)
C11_SuccessMeansPersisted ==
    (res.route \in MutatingRoutes /\ res.status = 200) =>
        /\ disk.exists
        /\ disk.data = JsonRoundTrip(db)

\* A section edit has just answered success after a notification was marked read
\* and a discussion resolved, and the file holds all three.
C11_Witness ==
    /\ res.route = "PUT /api/sections/:id"
    /\ res.status = 200
    /\ disk.data.sections[1].title = "Plan"
    /\ \E i \in 1..Len(disk.data.notifications) : disk.data.notifications[i].read
    /\ \E i \in 1..Len(disk.data.discussions) : Truthy(disk.data.discussions[i].resolved)

(* C12: persisting any reachable state and reloading it (a restart) reproduces  *)
(* identical discussions with their replies, identical notifications and       *)
(* identical id counters.                                                      *)
C12_RestartReproducesState ==
    [][ Restart =>
            /\ discussions' = discussions
            /\ notifications' = notifications
            /\ nextId' = nextId
      ]_vars

\* What trim() makes of the texts of the model: a single space trims to nothing.
Trimmed(text) == IF text = " " THEN "" ELSE text

\* The body breaks a constraint on type, text or author.
InvalidBody(b) ==
    \/ b.type \notin {"comment", "question"}
    \/ Trimmed(b.text) \in {"", Undefined}
    \/ b.author \notin KnownUsers

(* C13: create-discussion fails with a validation error, and changes no state,  *)
(* whenever type is not comment/question, or text is empty after trimming, or  *)
(* author is not a known user.                                                 *)
C13_InvalidCreateIsRejected ==
    [][ \A b \in CreateBodies :
            (CreateDiscussion(b.section_id, b.type, b.text, b.author, TRUE) /\ InvalidBody(b)) =>
                /\ res'.status \in 400..499
                /\ UNCHANGED <<sections, discussions, notifications, nextId, disk>>
      ]_vars

(* C14: mark_all_read(U) leaves every notification whose user is U with        *)
(* read = true and changes no field of any notification of another user.       *)
C14_MarkAllReadTouchesOnlyTheUser ==
    [][ \A u \in UserParams :
            MarkAllRead(u, TRUE) =>
                /\ Len(notifications') = Len(notifications)
                /\ \A i \in 1..Len(notifications) :
                        IF notifications[i].user = u
                        THEN notifications'[i].read = TRUE
                        ELSE notifications'[i] = notifications[i]
      ]_vars

\* A read-all has just run with one user's notification read and the other user's
\* still unread.
C14_Witness ==
    /\ res.route = "PATCH /api/notifications/:user/read-all"
    /\ res.status = 200
    /\ \E i, j \in 1..Len(notifications) :
            /\ notifications[i].read
            /\ ~notifications[j].read
            /\ notifications[i].user # notifications[j].user

\* Some stored discussion has the id the route parameter spells and is unresolved.
StoredUnresolved(r) ==
    \E i \in 1..Len(discussions) :
        discussions[i].id = ParseInt(r) /\ ~Truthy(discussions[i].resolved)

(* C16: resolving a stored unresolved discussion raises stats.resolved by       *)
(* exactly 1 and lowers stats.pending by exactly 1 against the stats read just *)
(* before, and in every state stats.resolved + stats.pending is the number of  *)
(* stored discussions.                                                         *)
C16_StatsFollowResolution ==
    /\ [](GetStats.resolved + GetStats.pending = Len(discussions))
    /\ [][ \A r \in RawIds :
            (ResolveStep(r, JsTrue) /\ StoredUnresolved(r) /\ res'.status = 200) =>
                /\ GetStats'.resolved = GetStats.resolved + 1
                /\ GetStats'.pending = GetStats.pending - 1
         ]_vars

\* A resolution has just left one discussion resolved and one pending.
C16_Witness ==
    /\ res.route = "PATCH /api/discussions/:id/resolve"
    /\ res.status = 200
    /\ GetStats.resolved = 1
    /\ GetStats.pending = 1

\* `list` without its element at index i; `list` itself when i = 0.
WithoutIndex(list, i) ==
    IF i = 0 THEN list ELSE SubSeq(list, 1, i - 1) \o SubSeq(list, i + 1, Len(list))

(* C17: deleting a discussion removes exactly the discussion with that id and   *)
(* reports success; deleting an id that does not exist reports success and     *)
(* changes no discussion; either way every notification, also one whose        *)
(* discussion_id is the deleted id, and every id counter stay as they are.     *)
C17_DeleteRemovesOnlyTheDiscussion ==
    [][ \A r \in RawIds :
            DeleteDiscussion(r, TRUE) =>
                /\ res'.status = 200
                /\ \E i \in 0..Len(discussions) :
                        /\ IF NoSuchDiscussion(r) THEN i = 0
                           ELSE i > 0 /\ discussions[i].id = ParseInt(r)
                        /\ discussions' = WithoutIndex(discussions, i)
                /\ notifications' = notifications
                /\ nextId' = nextId
      ]_vars

\* A delete has just removed a discussion that a stored notification refers to.
C17_Witness ==
    /\ res.route = "DELETE /api/discussions/:id"
    /\ res.status = 200
    /\ Len(discussions) > 0
    /\ \E k \in 1..Len(notifications) :
            \A i \in 1..Len(discussions) : discussions[i].id # notifications[k].discussion_id

(* C18: set_resolved, for any arguments and whether or not the discussion       *)
(* exists, adds no notification and changes no existing notification.          *)
C18_ResolveNeverNotifies ==
    [][ \A r \in RawIds, v \in ResolvedInputs :
            ResolveStep(r, v) => notifications' = notifications
      ]_vars

\* A resolution has just been stored, and the only notification is the creation's.
C18_Witness ==
    /\ res.route = "PATCH /api/discussions/:id/resolve"
    /\ Len(notifications) = 1
    /\ Len(discussions) = 1
    /\ Truthy(discussions[1].resolved)

(* C19: mark_read(id) sets read = true on the notification with that id and     *)
(* changes nothing else; when no notification has that id it changes no state  *)
(* and still reports success.                                                  *)
C19_MarkReadTouchesOnlyThatNotification ==
    [][ \A r \in PersistIds :
            MarkRead(r, TRUE) =>
                /\ res'.status = 200
                /\ UNCHANGED <<sections, discussions, nextId>>
                /\ IF \E i \in 1..Len(notifications) : notifications[i].id = ParseInt(r)
                   THEN \E i \in 1..Len(notifications) :
                            /\ notifications[i].id = ParseInt(r)
                            /\ notifications' = [notifications EXCEPT ![i].read = TRUE]
                   ELSE UNCHANGED <<notifications, disk>>
      ]_vars

\* The second notification has just been marked read, the first is still unread.
C19_Witness ==
    /\ res.route = "PATCH /api/notifications/:id/read"
    /\ res.status = 200
    /\ Len(notifications) >= 2
    /\ ~notifications[1].read
    /\ notifications[2].read

\* The stored notifications addressed to u, as indexes of notifications.
StoredFor(u) == {i \in 1..Len(notifications) : notifications[i].user = u}

(* C15: list_for_user(U) returns only notifications addressed to U, never more  *)
(* than 50 of them, ordered by created_at descending, and the ones returned    *)
(* are the most recent ones; reading the list changes neither the stored       *)
(* notifications nor their stored order.                                       *)
C15_ListIsTheFiftyMostRecent ==
    /\ [](\A u \in UserParams :
            LET L == GetNotifications(u)
                returned == {L[k].id : k \in 1..Len(L)}
            IN  /\ \A k \in 1..Len(L) :
                        /\ L[k].user = u
                        /\ \E i \in StoredFor(u) : notifications[i] = L[k]
                /\ Len(L) <= 50
                /\ Cardinality(returned) = Len(L)
                /\ Len(L) = 50 \/ Len(L) = Cardinality(StoredFor(u))
                /\ \A k \in 1..(Len(L) - 1) : L[k].created_at >= L[k + 1].created_at
                /\ \A i \in StoredFor(u) :
                        notifications[i].id \notin returned =>
                            \A k \in 1..Len(L) : L[k].created_at >= notifications[i].created_at)
    /\ [][ \A u \in UserParams : ListNotifications(u) => notifications' = notifications ]_vars

\* The list has just been read while a user has more than 50 notifications of
\* different dates: 50 are returned, the newest first.
C15_Witness ==
    /\ res.route = "GET /api/notifications/:user"
    /\ Cardinality(StoredFor("Wife")) > 50
    /\ Len(GetNotifications("Wife")) = 50
    /\ GetNotifications("Wife")[1].created_at > GetNotifications("Wife")[50].created_at
    /\ notifications[Len(notifications)].user = "Wife"
    /\ GetNotifications("Wife")[1] = notifications[Len(notifications)]

\* The n most recent events of the log: its first n elements.
MostRecent(log, n) == SubSeq(log, 1, IF Len(log) < n THEN Len(log) ELSE n)

(* C20: every login attempt that reaches the handler records exactly one        *)
(* security event, LOGIN_SUCCESS or LOGIN_FAILED; in every reachable state the *)
(* security log holds at most 1000 events and they are the most recent ones;   *)
(* the log is not part of the persisted state.                                 *)
C20_LogIsBoundedRecentAndVolatile ==
    /\ [](/\ Len(securityLog) <= 1000
          /\ \A i \in 1..(Len(securityLog) - 1) :
                securityLog[i].timestamp >= securityLog[i + 1].timestamp
          /\ DOMAIN disk.data = {"sections", "discussions", "notifications", "nextId"})
    /\ [][ /\ \A src \in Sources, pw \in {DefaultPassword, WrongPassword} :
                Login(src, pw) =>
                    /\ securityLog'[1].type =
                            IF res'.status = 200 THEN "LOGIN_SUCCESS" ELSE "LOGIN_FAILED"
                    /\ securityLog'[1].timestamp = now
                    /\ Tail(securityLog') = MostRecent(securityLog, 999)
                    /\ disk' = disk
           /\ Restart => securityLog' = <<>>
         ]_vars

\* Two logins of the modelled source have been recorded in a full log: the log
\* holds 1000 events, the two newest first, and an older one has been dropped.
C20_Witness ==
    /\ res.route = "POST /api/login"
    /\ Len(securityLog) = 1000
    /\ securityLog[1].ip \in Sources
    /\ securityLog[2].ip \in Sources
    /\ securityLog[1].type # securityLog[2].type
    /\ securityLog[1000].ip = OtherSource

\* The field holds a value: not null, not undefined, not left out.
Populated(v) == v \notin {Null, Undefined, Missing}

(* C21: after every set_resolved call on an existing discussion, resolved_by    *)
(* and resolved_at are set together: both populated when resolved is true,     *)
(* both null when it is false, for every body, also one without resolved_by.   *)
C21_AttributionSetTogether ==
    [][ \A r \in RawIds, v \in {JsTrue, JsFalse} :
            (ResolveStep(r, v) /\ ~NoSuchDiscussion(r) /\ res'.status = 200) =>
                \A i \in 1..Len(discussions') :
                    discussions'[i].id = ParseInt(r) =>
                        IF v = JsTrue
                        THEN /\ Populated(discussions'[i].resolved_by)
                             /\ discussions'[i].resolved_at # NullNum
                        ELSE /\ discussions'[i].resolved_by = Null
                             /\ discussions'[i].resolved_at = NullNum
      ]_vars

(* C22: when two notifications of the same user have equal created_at,          *)
(* list_for_user returns the later-inserted one first.                         *)
C22_TiesLaterInsertedFirst ==
    \A u \in UserParams :
        LET L == GetNotifications(u)
        IN  \A k \in 1..(Len(L) - 1) :
                L[k].created_at = L[k + 1].created_at => L[k].id > L[k + 1].id

\* The step is a handler whose flush failed, and the handler's mutation is in the
\* in-memory state after it.
FailedFlushOf ==
    \/ /\ CreateDiscussion(<<"1">>, "comment", "text", "Francisco", FALSE)
       /\ Len(discussions') = Len(discussions) + 1
       /\ Len(notifications') = Len(notifications) + 1
       /\ nextId' = [nextId EXCEPT !.discussion = @ + 1, !.notification = @ + 1]
    \/ \E r \in FlushIds :
        /\ AddReply(r, "text", "Wife", FALSE)
        /\ ~NoSuchDiscussion(r)
        /\ \E i \in 1..Len(discussions) :
                Len(discussions'[i].replies) = Len(discussions[i].replies) + 1
        /\ nextId'.reply = nextId.reply + 1
        /\ nextId'.notification = nextId.notification + 1
    \/ \E r \in FlushIds :
        /\ SetResolved(r, JsTrue, "Francisco", FALSE)
        /\ ~NoSuchDiscussion(r)
        /\ \E i \in 1..Len(discussions') :
                discussions'[i].id = ParseInt(r) /\ discussions'[i].resolved = JsTrue
    \/ \E r \in FlushIds :
        /\ DeleteDiscussion(r, FALSE)
        /\ \A i \in 1..Len(discussions') : discussions'[i].id # ParseInt(r)
    \/ \E r \in FlushIds :
        /\ MarkRead(r, FALSE)
        /\ \E i \in 1..Len(notifications) : notifications[i].id = ParseInt(r)
        /\ \A i \in 1..Len(notifications') :
                notifications'[i].id = ParseInt(r) => notifications'[i].read
    \/ \E u \in FlushUsers :
        /\ MarkAllRead(u, FALSE)
        /\ \A i \in 1..Len(notifications') :
                notifications'[i].user = u => notifications'[i].read
    \/ /\ UpdateSection(<<"1">>, "Plan", "text", FALSE)
       /\ sections'[1].title = "Plan"

\* The step is a handler that called saveDB and the call threw.
FlushFailed ==
    \/ CreateDiscussion(<<"1">>, "comment", "text", "Francisco", FALSE)
    \/ \E r \in FlushIds : AddReply(r, "text", "Wife", FALSE) /\ ~NoSuchDiscussion(r)
    \/ \E r \in FlushIds : SetResolved(r, JsTrue, "Francisco", FALSE) /\ ~NoSuchDiscussion(r)
    \/ \E r \in FlushIds : DeleteDiscussion(r, FALSE)
    \/ \E r \in FlushIds :
        MarkRead(r, FALSE) /\ \E i \in 1..Len(notifications) : notifications[i].id = ParseInt(r)
    \/ \E u \in FlushUsers : MarkAllRead(u, FALSE)
    \/ UpdateSection(<<"1">>, "Plan", "text", FALSE)

(* C23: if the flush fails during a mutating operation, the mutation, and any   *)
(* id-counter increment it made, stays in the in-memory state with no          *)
(* rollback, and the request is not answered with a success response.          *)
C23_FailedFlushKeepsMutation ==
    [][ FlushFailed =>
            /\ FailedFlushOf
            /\ res'.status # 200
            /\ disk' = disk
      ]_vars

\* A create whose flush failed has been answered 500: the discussion is in memory,
\* the counter has advanced, and the file still holds the state before it.
C23_Witness ==
    /\ res.route = "POST /api/discussions"
    /\ res.status = 500
    /\ Len(discussions) = 2
    /\ nextId.discussion = 3
    /\ Len(disk.data.discussions) = 1
    /\ disk.data.nextId.discussion = 2

(* C24: across every sequence of operations no notification is ever removed,   *)
(* no notification's read flag goes from true back to false, and no other      *)
(* field of an existing notification (id, user, type, message, discussion_id,  *)
(* created_at) ever changes.                                                   *)
C24_NotificationsOnlyGetRead ==
    [][ /\ Len(notifications') >= Len(notifications)
        /\ \A i \in 1..Len(notifications) :
                \/ notifications'[i] = notifications[i]
                \/ /\ ~notifications[i].read
                   /\ notifications'[i] = [notifications[i] EXCEPT !.read = TRUE]
      ]_vars

\* A discussion has been deleted and the notification raised for it is still stored,
\* already read, under the id of the discussion that is gone.
C24_Witness ==
    /\ res.route = "DELETE /api/discussions/:id"
    /\ res.status = 200
    /\ \E i \in 1..Len(notifications) :
            /\ notifications[i].read
            /\ \A j \in 1..Len(discussions) :
                    discussions[j].id # notifications[i].discussion_id

\* The replies of every discussion that the step keeps are the replies it had,
\* followed by what the step appended.
RepliesOnlyAppended ==
    \A i \in 1..Len(discussions), j \in 1..Len(discussions') :
        discussions'[j].id = discussions[i].id =>
            /\ Len(discussions'[j].replies) >= Len(discussions[i].replies)
            /\ SubSeq(discussions'[j].replies, 1, Len(discussions[i].replies))
                    = discussions[i].replies

(* C25: while a discussion exists its reply sequence only grows at the end: no  *)
(* operation removes, reorders or modifies an existing reply, and each         *)
(* add_reply appends exactly one reply to exactly the addressed discussion and *)
(* to no other.                                                                *)
C25_RepliesAppendOnly ==
    [][ /\ RepliesOnlyAppended
        /\ \A r \in PersistIds :
            (AddReply(r, "text", "Wife", TRUE) /\ ~NoSuchDiscussion(r)) =>
                /\ Len(discussions') = Len(discussions)
                /\ \A i \in 1..Len(discussions) :
                        IF discussions[i].id = ParseInt(r)
                        THEN /\ Len(discussions'[i].replies) = Len(discussions[i].replies) + 1
                             /\ discussions'[i] =
                                    [discussions[i] EXCEPT !.replies =
                                        Append(@, discussions'[i].replies[Len(discussions[i].replies) + 1])]
                        ELSE discussions'[i] = discussions[i]
        /\ res'.route # "POST /api/discussions/:id/replies" =>
                \A i \in 1..Len(discussions), j \in 1..Len(discussions') :
                    discussions'[j].id = discussions[i].id =>
                        discussions'[j].replies = discussions[i].replies
      ]_vars

\* Two discussions are stored and the second reply has just been added to the second
\* of them, after its first; the first discussion has none.
C25_Witness ==
    /\ res.route = "POST /api/discussions/:id/replies"
    /\ res.status = 200
    /\ Len(discussions) = 2
    /\ Len(discussions[1].replies) = 0
    /\ Len(discussions[2].replies) = 2
    /\ discussions[2].replies[1].id = 1
    /\ discussions[2].replies[2].id = 2

\* The position of every stored reply: the discussion's index and the reply's.
ReplySlots ==
    UNION { {<<i, k>> : k \in 1..Len(discussions[i].replies)} : i \in 1..Len(discussions) }

\* Every stored id is below its counter, and reply and notification ids are unique.
IdsBelowCounters ==
    /\ \A i \in 1..Len(discussions) : discussions[i].id < nextId.discussion
    /\ \A i \in 1..Len(notifications) : notifications[i].id < nextId.notification
    /\ \A p \in ReplySlots : discussions[p[1]].replies[p[2]].id < nextId.reply
    /\ \A p, q \in ReplySlots :
            discussions[p[1]].replies[p[2]].id = discussions[q[1]].replies[q[2]].id => p = q
    /\ \A i, j \in 1..Len(notifications) : notifications[i].id = notifications[j].id => i = j

(* C26: in every reachable state, including after a restart that reloads the   *)
(* persisted state, the three id counters never decrease, every stored         *)
(* discussion, reply and notification id is smaller than its counter, reply    *)
(* ids are unique across all discussions, and notification ids are unique.     *)
C26_CountersNeverDecrease ==
    /\ []IdsBelowCounters
    /\ [][ disk.exists =>
                /\ nextId'.discussion >= nextId.discussion
                /\ nextId'.reply >= nextId.reply
                /\ nextId'.notification >= nextId.notification
         ]_vars

(* C27: loading the state at startup never replaces an existing persisted      *)
(* state: a freshly seeded state (ten sections, no discussions, no             *)
(* notifications, counters at 1) is created and written only when no prior     *)
(* state file exists.                                                          *)
C27_SeedsOnlyWithoutFile ==
    [][ Restart =>
            IF disk.exists
            THEN disk' = disk
            ELSE /\ db' = SeedDB
                 /\ disk'.exists
                 /\ disk'.data = SeedDB
      ]_vars

\* The request's credentials pass the gate that guards the other /api routes:
\* requireAuth validates req.cookies?.auth_token || req.headers['x-auth-token'].
PassesGate(c, h) == validateSession(Or(c, h))

(* C28: GET /api/verify answers valid:true exactly when the same request's      *)
(* credentials (auth_token cookie and x-auth-token header) would pass the auth *)
(* gate that protects the other /api routes.                                   *)
C28_VerifyAgreesWithGate ==
    [][ \A c \in Credentials, h \in Credentials :
            VerifyStep(c, h) => (res'.status = 200 <=> PassesGate(c, h))
      ]_vars

\* A create request by author `a` among the bodies the lenient runs send.
CreateBy(a) ==
    \E b \in CreateBodies :
        b.author = a /\ CreateDiscussion(b.section_id, b.type, b.text, a, TRUE)

(* C29: for every author value the API accepts, creating a discussion and       *)
(* adding a reply notify the same set of recipients: every known user other    *)
(* than the author.                                                            *)
C29_CreateAndReplyNotifyAlike ==
    [][ \A a \in UserParams :
            /\ (CreateBy(a) /\ res'.status = 200) => NotifiesOthers(a, res'.id)
            /\ \A r \in PersistIds :
                    (AddReply(r, "text", a, TRUE) /\ res'.status = 200) =>
                        NotifiesOthers(a, ParseInt(r))
      ]_vars

\* A notification fetch has been sent and its response has not been delivered.
FetchInFlight ==
    \E n \in 1..Len(requests) :
        requests[n].kind = "fetch" /\ requests[n].stage # "done"

(* C30: in the client, for every interleaving of the 30-second notification     *)
(* poll, a user switch and a notification click, once no notification fetch is *)
(* in flight the notification list held in the client state is the one fetched *)
(* for the currently selected user.                                            *)
C30_ListIsTheCurrentUsers == ~FetchInFlight => shownFor = state.currentUser

====
